---- MODULE Spec2Model ----
(***************************************************************************)
(* Model of the precursor-barcode encoder (src/src/barcode_encode.rs).     *)
(*                                                                         *)
(* A character is its Unicode code point (a natural number) and a text is  *)
(* a sequence of code points.  Option<T> is a sequence of length 0 (None)  *)
(* or 1 (Some(x)).  Rust's 0-based indices are kept in the arguments; the  *)
(* +1 of TLA+ sequences appears only at the subscript.                     *)
(***************************************************************************)
EXTENDS Integers, Sequences, FiniteSets, TLC

VARIABLES text, format, pc, ret

\* one run of encode_code128, statement by statement: its input, its
\* locals and its position
VARIABLES c128_chars, c128_i, c128_set, c128_values, c128_modules, c128_pc

callVars == <<text, format, pc, ret>>

scanVars == <<c128_chars, c128_i, c128_set, c128_values, c128_modules, c128_pc>>

\* the application: the BarcodeApp struct, the persistent store, whether the
\* process is running, the screen whose Enter called generate_barcode in the
\* last key press ("none" if it called none), and for every saved entry the
\* barcode that was on display when it was saved (None for an entry that was
\* not saved in this history), and whether the last message handled ended
\* with ui::draw
VARIABLES app, pddb, alive, attempt, shown, redrawn

appVars == <<app, pddb, alive, attempt, shown, redrawn>>

vars == <<text, format, pc, ret,
          c128_chars, c128_i, c128_set, c128_values, c128_modules, c128_pc,
          app, pddb, alive, attempt, shown, redrawn>>

\* ------------------------------------------------------------------------
\* Option and small helpers
\* ------------------------------------------------------------------------

None == <<>>

Some(x) == <<x>>

\* n copies of the module b (the `for _ in 0..n { modules.push(b) }` loops)
push_n(b, n) == [k \in 1..n |-> b]

is_ascii_digit(c) == c >= 48 /\ c <= 57

is_ascii_uppercase(c) == c >= 65 /\ c <= 90

is_ascii_lowercase(c) == c >= 97 /\ c <= 122

\* number of bytes of the UTF-8 encoding of one character
len_utf8(c) == IF c < 128 THEN 1 ELSE IF c < 2048 THEN 2 ELSE IF c < 65536 THEN 3 ELSE 4

RECURSIVE str_len(_)
\* str::len(): the length of a text in bytes, not in characters
str_len(s) == IF s = <<>> THEN 0 ELSE len_utf8(Head(s)) + str_len(Tail(s))

\* `c as u8`: a char cast keeps the low 8 bits of the code point
as_u8(c) == c % 256

all_ascii_digit(s) == \A k \in 1..Len(s) : is_ascii_digit(s[k])

\* str::to_ascii_uppercase(): only a-z change
to_ascii_uppercase(s) ==
    [k \in 1..Len(s) |-> IF is_ascii_lowercase(s[k]) THEN s[k] - 32 ELSE s[k]]

\* ------------------------------------------------------------------------
\* Formats, auto-detection, validation
\* ------------------------------------------------------------------------

BarcodeFormat == {"Code128", "Code39", "Ean13", "UpcA"}

\* the literal " -.$/+%" of auto_detect and is_valid
CODE39_SPECIALS == {32, 45, 46, 36, 47, 43, 37}

in_code39_set(c) ==
    is_ascii_uppercase(c) \/ is_ascii_digit(c) \/ c \in CODE39_SPECIALS

\* variant: the Code39 rule is tried before the two digit-count rules
auto_detect_code39_first(s) ==
    LET all_digits == all_ascii_digit(s) IN
    IF \A k \in 1..Len(s) : in_code39_set(s[k]) THEN "Code39"
    ELSE IF all_digits /\ str_len(s) = 13 THEN "Ean13"
    ELSE IF all_digits /\ str_len(s) = 12 THEN "UpcA"
    ELSE "Code128"

\* variant: every all-digit text of up to 13 characters is taken for EAN-13
auto_detect_short_digits_ean13(s) ==
    LET all_digits == all_ascii_digit(s) IN
    IF all_digits /\ str_len(s) <= 13 THEN "Ean13"
    ELSE IF all_digits /\ str_len(s) = 12 THEN "UpcA"
    ELSE IF \A k \in 1..Len(s) : in_code39_set(s[k]) THEN "Code39"
    ELSE "Code128"

auto_detect(s) ==
    LET all_digits == all_ascii_digit(s) IN
    IF all_digits /\ str_len(s) = 13 THEN "Ean13"
    ELSE IF all_digits /\ str_len(s) = 12 THEN "UpcA"
    ELSE IF \A k \in 1..Len(s) : in_code39_set(s[k]) THEN "Code39"
    ELSE "Code128"

is_valid(s, f) ==
    CASE f = "Code128" -> \A k \in 1..Len(s) : s[k] < 128
      [] f = "Code39"  -> \A k \in 1..Len(s) : in_code39_set(s[k])
      [] f = "Ean13"   -> str_len(s) <= 13 /\ all_ascii_digit(s)
      [] f = "UpcA"    -> str_len(s) <= 12 /\ all_ascii_digit(s)

\* ------------------------------------------------------------------------
\* Code 128
\* ------------------------------------------------------------------------

CODE128_PATTERNS ==
    << <<2,1,2,2,2,2>>, <<2,2,2,1,2,2>>, <<2,2,2,2,2,1>>, <<1,2,1,2,2,3>>, <<1,2,1,3,2,2>>,
       <<1,3,1,2,2,2>>, <<1,2,2,2,1,3>>, <<1,2,2,3,1,2>>, <<1,3,2,2,1,2>>, <<2,2,1,2,1,3>>,
       <<2,2,1,3,1,2>>, <<2,3,1,2,1,2>>, <<1,1,2,2,3,2>>, <<1,2,2,1,3,2>>, <<1,2,2,2,3,1>>,
       <<1,1,3,2,2,2>>, <<1,2,3,1,2,2>>, <<1,2,3,2,2,1>>, <<2,2,3,2,1,1>>, <<2,2,1,1,3,2>>,
       <<2,2,1,2,3,1>>, <<2,1,3,2,1,2>>, <<2,2,3,1,1,2>>, <<3,1,2,1,3,1>>, <<3,1,1,2,2,2>>,
       <<3,2,1,1,2,2>>, <<3,2,1,2,2,1>>, <<3,1,2,2,1,2>>, <<3,2,2,1,1,2>>, <<3,2,2,2,1,1>>,
       <<2,1,2,1,2,3>>, <<2,1,2,3,2,1>>, <<2,3,2,1,2,1>>, <<1,1,1,3,2,3>>, <<1,3,1,1,2,3>>,
       <<1,3,1,3,2,1>>, <<1,1,2,3,2,2>>, <<1,3,2,1,2,2>>, <<1,3,2,3,2,0>>, <<2,1,1,3,1,3>>,
       <<2,3,1,1,1,3>>, <<2,3,1,3,1,1>>, <<1,1,2,1,3,3>>, <<1,1,2,3,3,1>>, <<1,3,2,1,3,1>>,
       <<1,1,3,1,2,3>>, <<1,1,3,3,2,1>>, <<1,3,3,1,2,1>>, <<3,1,3,1,2,1>>, <<2,1,1,3,3,1>>,
       <<2,3,1,1,3,1>>, <<2,1,3,1,1,3>>, <<2,1,3,3,1,1>>, <<2,1,3,1,3,1>>, <<3,1,1,1,2,3>>,
       <<3,1,1,3,2,1>>, <<3,3,1,1,2,1>>, <<3,1,2,1,1,3>>, <<3,1,2,3,1,1>>, <<3,3,2,1,1,1>>,
       <<2,1,1,2,1,3>>, <<2,1,1,2,3,1>>, <<2,3,1,2,1,1>>, <<1,1,2,2,1,3>>, <<1,1,2,2,3,1>>,
       <<1,3,2,2,1,1>>, <<1,1,1,1,3,3>>, <<1,3,1,1,3,1>>, <<1,1,3,1,1,3>>, <<1,1,3,3,1,1>>,
       <<1,3,3,1,1,1>>, <<3,1,1,1,3,1>>, <<3,1,3,1,1,1>>, <<2,1,1,1,3,3>>, <<2,1,3,1,3,0>>,
       <<3,1,1,2,1,2>>, <<3,1,1,2,2,1>>, <<1,2,1,1,2,3>>, <<1,2,1,3,2,1>>, <<1,2,1,1,3,2>>,
       <<3,2,1,1,1,2>>, <<1,1,1,2,2,3>>, <<1,1,1,2,3,2>>, <<1,2,1,2,3,1>>, <<1,2,3,2,1,1>>,
       <<3,2,1,2,1,1>>, <<2,1,2,2,1,2>>, <<1,1,2,1,2,3>>, <<1,2,2,2,1,2>>, <<2,2,1,2,2,1>>,
       <<2,1,1,1,2,3>>, <<2,1,1,2,2,2>>, <<2,2,1,1,2,2>>, <<2,2,2,1,1,2>>, <<2,2,2,2,1,1>>,
       <<1,1,3,2,2,1>>, <<1,1,2,2,2,2>>, <<2,2,2,1,2,1>>, <<2,1,1,2,2,2>>, <<3,1,2,2,2,1>>,
       <<2,1,2,1,1,3>>, <<2,1,2,3,1,1>>, <<1,2,1,1,2,3>>, <<1,2,3,2,1,1>>, <<1,2,1,1,3,2>>,
       <<1,1,3,1,2,3>>, <<2,3,3,1,1,1>> >>

START_B == 104

START_C == 105

CODE_B == 100

CODE_C == 99

STOP == 106

\* variant: the subset B value is the code point minus 31
code128_value_b_offset_31(c) == IF c >= 32 /\ c <= 126 THEN Some(c - 31) ELSE None

code128_value_b(c) == IF c >= 32 /\ c <= 126 THEN Some(c - 32) ELSE None

RECURSIVE widths_to_modules(_, _)
\* the bar/space expansion loop: element i (0-based) is dark iff i is even
widths_to_modules(widths, i) ==
    IF i >= Len(widths) THEN <<>>
    ELSE push_n(i % 2 = 0, widths[i + 1]) \o widths_to_modules(widths, i + 1)

pattern_to_modules(pattern) == widths_to_modules(pattern, 0)

RECURSIVE digit_run(_, _)
\* chars[i..].iter().take_while(|c| c.is_ascii_digit()).count()
digit_run(cs, k) ==
    IF k < Len(cs) /\ is_ascii_digit(cs[k + 1])
    THEN 1 + digit_run(cs, k + 1)
    ELSE 0

\* variant: one leading digit is enough to start in subset C
code128_start_c_on_one_digit(cs) ==
    IF digit_run(cs, 0) >= 1 THEN <<START_C, "C">> ELSE <<START_B, "B">>

code128_start(cs) ==
    IF digit_run(cs, 0) >= 4 THEN <<START_C, "C">> ELSE <<START_B, "B">>

\* variant: subset B switches to C as soon as two digits are ahead
code128_iter_switch_at_two(cs, k, set, vals) ==
    IF set = "C"
    THEN IF k + 1 < Len(cs) /\ is_ascii_digit(cs[k + 1]) /\ is_ascii_digit(cs[k + 2])
         THEN [i |-> k + 2, current_set |-> "C", ok |-> TRUE,
               values |-> Append(vals, (cs[k + 1] - 48) * 10 + (cs[k + 2] - 48))]
         ELSE [i |-> k, current_set |-> "B", ok |-> TRUE,
               values |-> Append(vals, CODE_B)]
    ELSE IF digit_run(cs, k) >= 2
         THEN [i |-> k, current_set |-> "C", ok |-> TRUE,
               values |-> Append(vals, CODE_C)]
         ELSE LET val == code128_value_b(cs[k + 1]) IN
              IF val # None
              THEN [i |-> k + 1, current_set |-> "B", ok |-> TRUE,
                    values |-> Append(vals, val[1])]
              ELSE [i |-> k, current_set |-> "B", ok |-> FALSE, values |-> vals]

\* one iteration of the `while i < chars.len()` loop body (k < Len(cs));
\* ok = FALSE is the `return None` inside it
code128_iter(cs, k, set, vals) ==
    IF set = "C"
    THEN IF k + 1 < Len(cs) /\ is_ascii_digit(cs[k + 1]) /\ is_ascii_digit(cs[k + 2])
         THEN [i |-> k + 2, current_set |-> "C", ok |-> TRUE,
               values |-> Append(vals, (cs[k + 1] - 48) * 10 + (cs[k + 2] - 48))]
         ELSE [i |-> k, current_set |-> "B", ok |-> TRUE,
               values |-> Append(vals, CODE_B)]
    ELSE IF digit_run(cs, k) >= 4
         THEN [i |-> k, current_set |-> "C", ok |-> TRUE,
               values |-> Append(vals, CODE_C)]
         ELSE LET val == code128_value_b(cs[k + 1]) IN
              IF val # None
              THEN [i |-> k + 1, current_set |-> "B", ok |-> TRUE,
                    values |-> Append(vals, val[1])]
              ELSE [i |-> k, current_set |-> "B", ok |-> FALSE, values |-> vals]

RECURSIVE code128_scan(_, _, _, _)
\* the `while i < chars.len()` loop; None is the `return None` inside it
code128_scan(cs, k, set, vals) ==
    IF ~(k < Len(cs)) THEN Some(vals)
    ELSE LET n == code128_iter(cs, k, set, vals) IN
         IF n.ok THEN code128_scan(cs, n.i, n.current_set, n.values)
         ELSE None

RECURSIVE code128_weighted(_, _)
\* sum of val * (pos + 1) over values[1..], pos 0-based
code128_weighted(values, pos) ==
    IF pos + 1 >= Len(values) THEN 0
    ELSE values[pos + 2] * (pos + 1) + code128_weighted(values, pos + 1)

\* variant: the start code is left out of the checksum
code128_checksum_without_start(values) == code128_weighted(values, 0) % 103

code128_checksum(values) == (values[1] + code128_weighted(values, 0)) % 103

STOP_MODS ==
    << TRUE, TRUE, FALSE, FALSE, FALSE, TRUE, TRUE, TRUE, FALSE, TRUE, TRUE,
       FALSE, TRUE >>

RECURSIVE code128_symbols(_, _)
code128_symbols(values, k) ==
    IF k >= Len(values) THEN <<>>
    ELSE (IF values[k + 1] = STOP THEN STOP_MODS
          ELSE IF values[k + 1] < 107
               THEN pattern_to_modules(CODE128_PATTERNS[values[k + 1] + 1])
               ELSE <<>>)
         \o code128_symbols(values, k + 1)

\* variant: the trailing quiet zone is left out
code128_modules_no_trailing_quiet(values) ==
    push_n(FALSE, 10) \o code128_symbols(values, 0)

code128_modules(values) ==
    push_n(FALSE, 10) \o code128_symbols(values, 0) \o push_n(FALSE, 10)

\* the symbol values of a validated text: start, data/switch, checksum, stop
code128_values(cs) ==
    LET start == code128_start(cs)
        vals  == code128_scan(cs, 0, start[2], <<start[1]>>)
    IN  IF vals = None THEN None
        ELSE Some(vals[1] \o <<code128_checksum(vals[1]), STOP>>)

\* variant: the lower limit of the validation is exclusive (space rejected)
encode_code128_rejects_space(s) ==
    IF ~(\A k \in 1..Len(s) : s[k] > 32 /\ s[k] <= 126) THEN None
    ELSE LET values == code128_values(s) IN
         IF values = None THEN None
         ELSE Some([modules |-> code128_modules(values[1]),
                    text    |-> s,
                    format  |-> "Code128"])

encode_code128(s) ==
    IF ~(\A k \in 1..Len(s) : s[k] >= 32 /\ s[k] <= 126) THEN None
    ELSE LET values == code128_values(s) IN
         IF values = None THEN None
         ELSE Some([modules |-> code128_modules(values[1]),
                    text    |-> s,
                    format  |-> "Code128"])

\* ------------------------------------------------------------------------
\* Code 39
\* ------------------------------------------------------------------------

CODE39_CHARS ==
    << 48, 49, 50, 51, 52, 53, 54, 55, 56, 57,
       65, 66, 67, 68, 69, 70, 71, 72, 73, 74, 75, 76, 77,
       78, 79, 80, 81, 82, 83, 84, 85, 86, 87, 88, 89, 90,
       45, 46, 32, 36, 47, 43, 37, 42 >>

CODE39_PATTERNS ==
    << <<0,0,0,1,1,0,1,0,0>>, <<1,0,0,1,0,0,0,0,1>>, <<0,0,1,1,0,0,0,0,1>>,
       <<1,0,1,1,0,0,0,0,0>>, <<0,0,0,1,1,0,0,0,1>>, <<1,0,0,1,1,0,0,0,0>>,
       <<0,0,1,1,1,0,0,0,0>>, <<0,0,0,1,0,0,1,0,1>>, <<1,0,0,1,0,0,1,0,0>>,
       <<0,0,1,1,0,0,1,0,0>>, <<1,0,0,0,0,1,0,0,1>>, <<0,0,1,0,0,1,0,0,1>>,
       <<1,0,1,0,0,1,0,0,0>>, <<0,0,0,0,1,1,0,0,1>>, <<1,0,0,0,1,1,0,0,0>>,
       <<0,0,1,0,1,1,0,0,0>>, <<0,0,0,0,0,1,1,0,1>>, <<1,0,0,0,0,1,1,0,0>>,
       <<0,0,1,0,0,1,1,0,0>>, <<0,0,0,0,1,1,1,0,0>>, <<1,0,0,0,0,0,0,1,1>>,
       <<0,0,1,0,0,0,0,1,1>>, <<1,0,1,0,0,0,0,1,0>>, <<0,0,0,0,1,0,0,1,1>>,
       <<1,0,0,0,1,0,0,1,0>>, <<0,0,1,0,1,0,0,1,0>>, <<0,0,0,0,0,0,1,1,1>>,
       <<1,0,0,0,0,0,1,1,0>>, <<0,0,1,0,0,0,1,1,0>>, <<0,0,0,0,1,0,1,1,0>>,
       <<1,1,0,0,0,0,0,0,1>>, <<0,1,1,0,0,0,0,0,1>>, <<1,1,1,0,0,0,0,0,0>>,
       <<0,1,0,0,1,0,0,0,1>>, <<1,1,0,0,1,0,0,0,0>>, <<0,1,1,0,1,0,0,0,0>>,
       <<0,1,0,0,0,0,1,0,1>>, <<1,1,0,0,0,0,1,0,0>>, <<0,1,0,1,0,1,0,0,0>>,
       <<0,1,0,1,0,0,0,1,0>>, <<0,1,0,0,0,1,0,1,0>>, <<0,0,0,1,0,1,0,1,0>>,
       <<0,1,0,1,0,1,0,0,0>>, <<0,1,0,0,1,0,1,0,0>> >>

\* position(): the 0-based index of the first byte equal to `c as u8`
code39_index(c) ==
    IF \E k \in 1..Len(CODE39_CHARS) : CODE39_CHARS[k] = as_u8(c)
    THEN Some((CHOOSE k \in 1..Len(CODE39_CHARS) :
                  /\ CODE39_CHARS[k] = as_u8(c)
                  /\ \A j \in 1..(k - 1) : CODE39_CHARS[j] # as_u8(c)) - 1)
    ELSE None

RECURSIVE code39_widths(_, _, _, _)
code39_widths(pattern, narrow, wide, i) ==
    IF i >= Len(pattern) THEN <<>>
    ELSE <<IF pattern[i + 1] # 0 THEN wide ELSE narrow>>
         \o code39_widths(pattern, narrow, wide, i + 1)

\* returns the modules pushed for one character
encode_code39_char(pattern, narrow, wide) ==
    widths_to_modules(code39_widths(pattern, narrow, wide, 0), 0)

RECURSIVE code39_data(_, _)
\* the `for c in upper.chars()` loop: pattern then a gap, per character
code39_data(upper, k) ==
    IF k >= Len(upper) THEN <<>>
    ELSE LET idx == code39_index(upper[k + 1]) IN
         (IF idx # None
          THEN encode_code39_char(CODE39_PATTERNS[idx[1] + 1], 1, 3) \o <<FALSE>>
          ELSE <<>>)
         \o code39_data(upper, k + 1)

\* variant: the gap after the start sentinel is missing
code39_modules_no_start_gap(upper) ==
    LET star_idx == 43 IN
       push_n(FALSE, 10)
    \o encode_code39_char(CODE39_PATTERNS[star_idx + 1], 1, 3)
    \o code39_data(upper, 0)
    \o encode_code39_char(CODE39_PATTERNS[star_idx + 1], 1, 3)
    \o push_n(FALSE, 10)

code39_modules(upper) ==
    LET star_idx == 43 IN
       push_n(FALSE, 10)
    \o encode_code39_char(CODE39_PATTERNS[star_idx + 1], 1, 3)
    \o <<FALSE>>
    \o code39_data(upper, 0)
    \o encode_code39_char(CODE39_PATTERNS[star_idx + 1], 1, 3)
    \o push_n(FALSE, 10)

\* variant: the input is validated before it is uppercased
encode_code39_validates_raw(s) ==
    LET upper == to_ascii_uppercase(s) IN
    IF ~(\A k \in 1..Len(s) : code39_index(s[k]) # None) THEN None
    ELSE Some([modules |-> code39_modules(upper),
               text    |-> upper,
               format  |-> "Code39"])

encode_code39(s) ==
    LET upper == to_ascii_uppercase(s) IN
    IF ~(\A k \in 1..Len(upper) : code39_index(upper[k]) # None) THEN None
    ELSE Some([modules |-> code39_modules(upper),
               text    |-> upper,
               format  |-> "Code39"])

\* ------------------------------------------------------------------------
\* EAN-13 and UPC-A
\* ------------------------------------------------------------------------

EAN_L_PATTERNS ==
    << <<FALSE,FALSE,FALSE,TRUE,TRUE,FALSE,TRUE>>, <<FALSE,FALSE,TRUE,TRUE,FALSE,FALSE,TRUE>>,
       <<FALSE,FALSE,TRUE,FALSE,FALSE,TRUE,TRUE>>, <<FALSE,TRUE,TRUE,TRUE,TRUE,FALSE,TRUE>>,
       <<FALSE,TRUE,FALSE,FALSE,FALSE,TRUE,TRUE>>, <<FALSE,TRUE,TRUE,FALSE,FALSE,FALSE,TRUE>>,
       <<FALSE,TRUE,FALSE,TRUE,TRUE,TRUE,TRUE>>, <<FALSE,TRUE,TRUE,TRUE,FALSE,TRUE,TRUE>>,
       <<FALSE,TRUE,TRUE,FALSE,TRUE,TRUE,TRUE>>, <<FALSE,FALSE,FALSE,TRUE,FALSE,TRUE,TRUE>> >>

EAN_G_PATTERNS ==
    << <<FALSE,TRUE,FALSE,FALSE,TRUE,TRUE,TRUE>>, <<FALSE,TRUE,TRUE,FALSE,FALSE,TRUE,TRUE>>,
       <<FALSE,FALSE,TRUE,TRUE,FALSE,TRUE,TRUE>>, <<FALSE,TRUE,FALSE,FALSE,FALSE,FALSE,TRUE>>,
       <<FALSE,FALSE,TRUE,TRUE,TRUE,FALSE,TRUE>>, <<FALSE,TRUE,TRUE,TRUE,FALSE,FALSE,TRUE>>,
       <<FALSE,FALSE,FALSE,FALSE,TRUE,FALSE,TRUE>>, <<FALSE,FALSE,TRUE,FALSE,FALSE,FALSE,TRUE>>,
       <<FALSE,FALSE,FALSE,TRUE,FALSE,FALSE,TRUE>>, <<FALSE,FALSE,TRUE,FALSE,TRUE,TRUE,TRUE>> >>

EAN_R_PATTERNS ==
    << <<TRUE,TRUE,TRUE,FALSE,FALSE,TRUE,FALSE>>, <<TRUE,TRUE,FALSE,FALSE,TRUE,TRUE,FALSE>>,
       <<TRUE,TRUE,FALSE,TRUE,TRUE,FALSE,FALSE>>, <<TRUE,FALSE,FALSE,FALSE,FALSE,TRUE,FALSE>>,
       <<TRUE,FALSE,TRUE,TRUE,TRUE,FALSE,FALSE>>, <<TRUE,FALSE,FALSE,TRUE,TRUE,TRUE,FALSE>>,
       <<TRUE,FALSE,TRUE,FALSE,FALSE,FALSE,FALSE>>, <<TRUE,FALSE,FALSE,FALSE,TRUE,FALSE,FALSE>>,
       <<TRUE,FALSE,FALSE,TRUE,FALSE,FALSE,FALSE>>, <<TRUE,TRUE,TRUE,FALSE,TRUE,FALSE,FALSE>> >>

EAN_PARITY ==
    << <<0,0,0,0,0,0>>, <<0,0,1,0,1,1>>, <<0,0,1,1,0,1>>,
       <<0,0,1,1,1,0>>, <<0,1,0,0,1,1>>, <<0,1,1,0,0,1>>,
       <<0,1,1,1,0,0>>, <<0,1,0,1,0,1>>, <<0,1,0,1,1,0>>,
       <<0,1,1,0,1,0>> >>

RECURSIVE weighted_sum(_, _, _, _)
\* sum over digits[i..] of d * (even_w at even i, odd_w at odd i), i 0-based
weighted_sum(digits, i, even_w, odd_w) ==
    IF i >= Len(digits) THEN 0
    ELSE digits[i + 1] * (IF i % 2 = 0 THEN even_w ELSE odd_w)
         + weighted_sum(digits, i + 1, even_w, odd_w)

\* variant: the UPC weighting (3 at even positions) is used for EAN-13
ean13_check_digit_upc_weights(digits) ==
    LET sum == weighted_sum(digits, 0, 3, 1) IN (10 - (sum % 10)) % 10

ean13_check_digit(digits) ==
    LET sum == weighted_sum(digits, 0, 1, 3) IN (10 - (sum % 10)) % 10

\* variant: the EAN weighting (1 at even positions) is used for UPC-A
upc_check_digit_ean_weights(digits) ==
    LET sum == weighted_sum(digits, 0, 1, 3) IN (10 - (sum % 10)) % 10

upc_check_digit(digits) ==
    LET sum == weighted_sum(digits, 0, 3, 1) IN (10 - (sum % 10)) % 10

\* text.chars().map(|c| c as u8 - b'0'), used after the all-digit test
to_digits(s) == [k \in 1..Len(s) |-> as_u8(s[k]) - 48]

\* digits.iter().map(|d| (d + b'0') as char)
digits_to_text(digits) == [k \in 1..Len(digits) |-> digits[k] + 48]

RECURSIVE ean13_left(_, _)
ean13_left(digits, i) ==
    IF i >= 6 THEN <<>>
    ELSE LET parity == EAN_PARITY[digits[1] + 1]
             digit  == digits[i + 2]
         IN  (IF parity[i + 1] = 0 THEN EAN_L_PATTERNS[digit + 1]
                                   ELSE EAN_G_PATTERNS[digit + 1])
             \o ean13_left(digits, i + 1)

RECURSIVE ean13_right(_, _)
ean13_right(digits, i) ==
    IF i >= 6 THEN <<>>
    ELSE EAN_R_PATTERNS[digits[i + 8] + 1] \o ean13_right(digits, i + 1)

\* variant: the center guard starts with a bar
ean13_modules_center_guard_inverted(digits) ==
       push_n(FALSE, 9)
    \o <<TRUE, FALSE, TRUE>>
    \o ean13_left(digits, 0)
    \o <<TRUE, FALSE, TRUE, FALSE, TRUE>>
    \o ean13_right(digits, 0)
    \o <<TRUE, FALSE, TRUE>>
    \o push_n(FALSE, 9)

ean13_modules(digits) ==
       push_n(FALSE, 9)
    \o <<TRUE, FALSE, TRUE>>
    \o ean13_left(digits, 0)
    \o <<FALSE, TRUE, FALSE, TRUE, FALSE>>
    \o ean13_right(digits, 0)
    \o <<TRUE, FALSE, TRUE>>
    \o push_n(FALSE, 9)

\* variant: the `digits.len() != 13` rejection is missing
ean13_digits_no_upper_limit(s) ==
    IF ~all_ascii_digit(s) THEN None
    ELSE LET d0 == to_digits(s) IN
         IF Len(d0) < 12 THEN None
         ELSE LET d1 == IF Len(d0) = 12
                        THEN Append(d0, ean13_check_digit(d0))
                        ELSE d0
                  expected == ean13_check_digit(SubSeq(d1, 1, 12))
              IN  Some([d1 EXCEPT ![13] = expected])

\* the 13 digits encode_ean13 lays out, or None when the input is rejected
ean13_digits(s) ==
    IF ~all_ascii_digit(s) THEN None
    ELSE LET d0 == to_digits(s) IN
         IF Len(d0) < 12 THEN None
         ELSE LET d1 == IF Len(d0) = 12
                        THEN Append(d0, ean13_check_digit(d0))
                        ELSE d0
              IN  IF Len(d1) # 13 THEN None
                  ELSE LET expected == ean13_check_digit(SubSeq(d1, 1, 12)) IN
                       Some(IF d1[13] # expected
                            THEN [d1 EXCEPT ![13] = expected]
                            ELSE d1)

encode_ean13(s) ==
    LET digits == ean13_digits(s) IN
    IF digits = None THEN None
    ELSE Some([modules |-> ean13_modules(digits[1]),
               text    |-> digits_to_text(digits[1]),
               format  |-> "Ean13"])

\* variant: a 12th input digit is kept as the check digit
upc_a_digits_keeps_input_check(s) ==
    IF ~all_ascii_digit(s) THEN None
    ELSE LET d0 == to_digits(s) IN
         IF Len(d0) < 11 THEN None
         ELSE LET d1 == IF Len(d0) = 11
                        THEN Append(d0, upc_check_digit(d0))
                        ELSE d0
              IN  IF Len(d1) # 12 THEN None
                  ELSE Some(d1)

\* the 12 digits encode_upc_a keeps, or None when the input is rejected
upc_a_digits(s) ==
    IF ~all_ascii_digit(s) THEN None
    ELSE LET d0 == to_digits(s) IN
         IF Len(d0) < 11 THEN None
         ELSE LET d1 == IF Len(d0) = 11
                        THEN Append(d0, upc_check_digit(d0))
                        ELSE d0
              IN  IF Len(d1) # 12 THEN None
                  ELSE Some([d1 EXCEPT ![12] = upc_check_digit(SubSeq(d1, 1, 11))])

\* variant: the display text of the EAN-13 result is not overwritten
encode_upc_a_keeps_ean_text(s) ==
    LET digits == upc_a_digits(s) IN
    IF digits = None THEN None
    ELSE LET ean_digits == <<0>> \o digits[1]
             ean_text   == digits_to_text(ean_digits)
             barcode    == encode_ean13(ean_text)
         IN  IF barcode # None
             THEN Some([barcode[1] EXCEPT !.format = "UpcA"])
             ELSE None

encode_upc_a(s) ==
    LET digits == upc_a_digits(s) IN
    IF digits = None THEN None
    ELSE LET ean_digits == <<0>> \o digits[1]
             display    == digits_to_text(digits[1])
             ean_text   == digits_to_text(ean_digits)
             barcode    == encode_ean13(ean_text)
         IN  IF barcode # None
             THEN Some([barcode[1] EXCEPT !.text = display, !.format = "UpcA"])
             ELSE None

\* variant: the empty-text test is missing
encode_no_empty_check(s, f) ==
    CASE f = "Code128" -> encode_code128(s)
      [] f = "Code39"  -> encode_code39(s)
      [] f = "Ean13"   -> encode_ean13(s)
      [] f = "UpcA"    -> encode_upc_a(s)

encode(s, f) ==
    IF s = <<>> THEN None
    ELSE CASE f = "Code128" -> encode_code128(s)
           [] f = "Code39"  -> encode_code39(s)
           [] f = "Ean13"   -> encode_ean13(s)
           [] f = "UpcA"    -> encode_upc_a(s)

\* ------------------------------------------------------------------------
\* Persistence (storage.rs).  The store holds parsed JSON values: the
\* settings record under barcode.settings/config, the list of names under
\* barcode.codes/index and one {text, format} object per key "code.<name>".
\* ------------------------------------------------------------------------

\* the `match settings.format` / `match code.format` of the two save functions
fmt_str(f) ==
    CASE f = "Code128" -> "code128"
      [] f = "Code39"  -> "code39"
      [] f = "Ean13"   -> "ean13"
      [] f = "UpcA"    -> "upca"

\* the `match json.get("format")` of the two load functions; v is an Option
parse_format(v) ==
    IF v = Some("code39") THEN "Code39"
    ELSE IF v = Some("ean13") THEN "Ean13"
    ELSE IF v = Some("upca") THEN "UpcA"
    ELSE "Code128"

\* alloc::format!("code.{}", name)
key_name(name) == <<99, 111, 100, 101, 46>> \o name

\* a store on which nothing was ever written
EMPTY_PDDB == [settings |-> None, index |-> None, codes |-> <<>>]

load_settings(p) ==
    IF p.settings = None THEN None
    ELSE LET json == p.settings[1] IN
         Some([format      |-> parse_format(Some(json.format)),
               bar_width   |-> json.bar_width % 256,
               bar_height  |-> json.bar_height % 65536,
               auto_format |-> json.auto_format])

save_settings(p, settings) ==
    [p EXCEPT !.settings = Some([format      |-> fmt_str(settings.format),
                                 bar_width   |-> settings.bar_width,
                                 bar_height  |-> settings.bar_height,
                                 auto_format |-> settings.auto_format])]

RECURSIVE load_codes_from(_, _, _)
\* the `for name in &names` loop of load_codes
load_codes_from(p, names, k) ==
    IF k >= Len(names) THEN <<>>
    ELSE LET name == names[k + 1] IN
         (IF key_name(name) \in DOMAIN p.codes
          THEN LET json == p.codes[key_name(name)] IN
               <<[name   |-> name,
                  text   |-> IF json.text = None THEN <<>> ELSE json.text[1],
                  format |-> parse_format(json.format)]>>
          ELSE <<>>)
         \o load_codes_from(p, names, k + 1)

load_codes(p) ==
    LET names == IF p.index = None THEN <<>> ELSE p.index[1] IN
    load_codes_from(p, names, 0)

RECURSIVE write_codes(_, _, _)
\* the `for code in codes` loop of save_codes: a later entry of the same
\* name writes the same key again
write_codes(dict, codes, k) ==
    IF k >= Len(codes) THEN dict
    ELSE LET code == codes[k + 1]
             json == [text |-> Some(code.text), format |-> Some(fmt_str(code.format))]
         IN  write_codes((key_name(code.name) :> json) @@ dict, codes, k + 1)

save_codes(p, codes) ==
    [p EXCEPT !.index = Some([k \in 1..Len(codes) |-> codes[k].name]),
              !.codes = write_codes(p.codes, codes, 0)]

\* ------------------------------------------------------------------------
\* The application (app.rs)
\* ------------------------------------------------------------------------

KEY_UP == 8593

KEY_DOWN == 8595

KEY_LEFT == 8592

KEY_RIGHT == 8594

KEY_ENTER == 13

KEY_BACKSPACE == 8

KEY_F1 == 61441

KEY_F2 == 61442

KEY_F3 == 61443

KEY_F4 == 61444

MAX_TEXT_LEN == 80

is_ascii_graphic(c) == c >= 33 /\ c <= 126

\* 'x' | 'X' patterns: c is the code point of the lowercase letter
is_letter(key, c) == key = c \/ key = c - 32

next_format(f) ==
    CASE f = "Code128" -> "Code39"
      [] f = "Code39"  -> "Ean13"
      [] f = "Ean13"   -> "UpcA"
      [] f = "UpcA"    -> "Code128"

\* MenuItem::all()
MENU_ITEMS == <<"NewBarcode", "SavedCodes", "Settings", "Help">>

DEFAULT_SETTINGS ==
    [bar_width |-> 2, bar_height |-> 200, format |-> "Code128", auto_format |-> TRUE]

\* BarcodeApp::new(); the storage handle is left out: Storage::new() never
\* fails, so after init_storage it is always present
BarcodeApp_new ==
    [state          |-> "MainMenu",
     menu_index     |-> 0,
     input_text     |-> <<>>,
     barcode        |-> None,
     barcode_text   |-> <<>>,
     settings       |-> DEFAULT_SETTINGS,
     saved_codes    |-> <<>>,
     load_index     |-> 0,
     save_name      |-> <<>>,
     settings_index |-> 0,
     needs_redraw   |-> TRUE]

init_storage(a, p) ==
    LET loaded == load_settings(p) IN
    [a EXCEPT !.settings    = IF loaded # None THEN loaded[1] ELSE a.settings,
              !.saved_codes = load_codes(p)]

\* variant: the auto-detect setting is ignored
active_format_ignores_auto(a) == a.settings.format

active_format(a) ==
    IF a.settings.auto_format /\ a.input_text # <<>>
    THEN auto_detect(a.input_text)
    ELSE a.settings.format

\* String::pop()
pop(s) == IF s = <<>> THEN s ELSE SubSeq(s, 1, Len(s) - 1)

\* what a handler hands back: the app, the store and its return value
Result(a, p, cont) == [app |-> a, pddb |-> p, cont |-> cont]

\* variant: the app moves to Display whether or not encode succeeded
generate_barcode_displays_on_failure(a) ==
    LET fmt == active_format(a)
        b   == encode(a.input_text, fmt)
    IN  IF b # None
        THEN [a EXCEPT !.barcode_text = a.input_text,
                       !.barcode = b,
                       !.state = "Display"]
        ELSE [a EXCEPT !.state = "Display"]

generate_barcode(a) ==
    LET fmt == active_format(a)
        b   == encode(a.input_text, fmt)
    IN  IF b # None
        THEN [a EXCEPT !.barcode_text = a.input_text,
                       !.barcode = b,
                       !.state = "Display"]
        ELSE a

\* an index past the end of saved_codes aborts the process
Panicked(a, p) == Result([a EXCEPT !.state = "Panicked"], p, FALSE)

Min(x, y) == IF x < y THEN x ELSE y

Max(x, y) == IF x > y THEN x ELSE y

\* u16::saturating_sub
saturating_sub(x, y) == IF x >= y THEN x - y ELSE 0

\* Vec::remove(k), k 0-based and in range
remove_at(s, k) == SubSeq(s, 1, k) \o SubSeq(s, k + 2, Len(s))

handle_menu_key(a, p, key) ==
    IF key = KEY_UP
    THEN Result(IF a.menu_index > 0 THEN [a EXCEPT !.menu_index = @ - 1] ELSE a, p, TRUE)
    ELSE IF key = KEY_DOWN
    THEN Result(IF a.menu_index < Len(MENU_ITEMS) - 1
                THEN [a EXCEPT !.menu_index = @ + 1] ELSE a, p, TRUE)
    ELSE IF key = KEY_ENTER
    THEN LET item == MENU_ITEMS[a.menu_index + 1] IN
         Result(CASE item = "NewBarcode" -> [a EXCEPT !.input_text = <<>>, !.state = "Input"]
                  [] item = "SavedCodes" -> [a EXCEPT !.load_index = 0, !.state = "LoadList"]
                  [] item = "Settings"   -> [a EXCEPT !.settings_index = 0, !.state = "Settings"]
                  [] item = "Help"       -> [a EXCEPT !.state = "Help"],
                p, TRUE)
    ELSE IF is_letter(key, 110)
    THEN Result([a EXCEPT !.input_text = <<>>, !.state = "Input"], p, TRUE)
    ELSE IF is_letter(key, 113)
    THEN Result(a, p, FALSE)
    ELSE Result([a EXCEPT !.needs_redraw = FALSE], p, TRUE)

handle_input_key(a, p, key) ==
    IF key = KEY_ENTER
    THEN Result(IF a.input_text # <<>> THEN generate_barcode(a) ELSE a, p, TRUE)
    ELSE IF key = KEY_BACKSPACE
    THEN Result([a EXCEPT !.input_text = pop(@)], p, TRUE)
    ELSE IF is_letter(key, 113) /\ a.input_text = <<>>
    THEN Result([a EXCEPT !.state = "MainMenu"], p, TRUE)
    ELSE IF key = KEY_F1
    THEN Result([a EXCEPT !.settings.auto_format = FALSE, !.settings.format = "Code128"], p, TRUE)
    ELSE IF key = KEY_F2
    THEN Result([a EXCEPT !.settings.auto_format = FALSE, !.settings.format = "Code39"], p, TRUE)
    ELSE IF key = KEY_F3
    THEN Result([a EXCEPT !.settings.auto_format = FALSE, !.settings.format = "Ean13"], p, TRUE)
    ELSE IF key = KEY_F4
    THEN Result([a EXCEPT !.settings.auto_format = FALSE, !.settings.format = "UpcA"], p, TRUE)
    ELSE IF is_ascii_graphic(key) \/ key = 32
    THEN Result(IF str_len(a.input_text) < MAX_TEXT_LEN
                THEN [a EXCEPT !.input_text = Append(@, key)] ELSE a, p, TRUE)
    ELSE Result([a EXCEPT !.needs_redraw = FALSE], p, TRUE)

\* KEY_UP in Display, stepping once more at the limit
display_height_up_at_limit(a, p) ==
    IF a.settings.bar_height <= 300
    THEN LET b == [a EXCEPT !.settings.bar_height = (@ + 20) % 65536] IN
         Result(b, save_settings(p, b.settings), TRUE)
    ELSE Result(a, p, TRUE)

\* KEY_UP in Display
display_height_up(a, p) ==
    IF a.settings.bar_height < 300
    THEN LET b == [a EXCEPT !.settings.bar_height = (@ + 20) % 65536] IN
         Result(b, save_settings(p, b.settings), TRUE)
    ELSE Result(a, p, TRUE)

\* KEY_DOWN in Display
display_height_down(a, p) ==
    IF a.settings.bar_height > 80
    THEN LET b == [a EXCEPT !.settings.bar_height = @ - 20] IN
         Result(b, save_settings(p, b.settings), TRUE)
    ELSE Result(a, p, TRUE)

\* KEY_RIGHT in Display
display_width_up(a, p) ==
    IF a.settings.bar_width < 4
    THEN LET b == [a EXCEPT !.settings.bar_width = (@ + 1) % 256] IN
         Result(b, save_settings(p, b.settings), TRUE)
    ELSE Result(a, p, TRUE)

\* KEY_LEFT in Display
display_width_down(a, p) ==
    IF a.settings.bar_width > 1
    THEN LET b == [a EXCEPT !.settings.bar_width = @ - 1] IN
         Result(b, save_settings(p, b.settings), TRUE)
    ELSE Result(a, p, TRUE)

handle_display_key(a, p, key) ==
    IF is_letter(key, 113)
    THEN Result([a EXCEPT !.state = "MainMenu"], p, TRUE)
    ELSE IF is_letter(key, 110)
    THEN Result([a EXCEPT !.input_text = <<>>, !.state = "Input"], p, TRUE)
    ELSE IF is_letter(key, 115)
    THEN Result([a EXCEPT !.save_name = <<>>, !.state = "SavePrompt"], p, TRUE)
    ELSE IF key = KEY_UP THEN display_height_up(a, p)
    ELSE IF key = KEY_DOWN THEN display_height_down(a, p)
    ELSE IF key = KEY_RIGHT THEN display_width_up(a, p)
    ELSE IF key = KEY_LEFT THEN display_width_down(a, p)
    ELSE Result([a EXCEPT !.needs_redraw = FALSE], p, TRUE)

handle_save_prompt_key(a, p, key) ==
    IF is_letter(key, 121) \/ key = KEY_ENTER
    THEN Result([a EXCEPT !.save_name = <<>>, !.state = "SaveNameEntry"], p, TRUE)
    ELSE IF is_letter(key, 110) \/ is_letter(key, 113)
    THEN Result([a EXCEPT !.state = "Display"], p, TRUE)
    ELSE Result([a EXCEPT !.needs_redraw = FALSE], p, TRUE)

handle_save_name_key(a, p, key) ==
    IF key = KEY_ENTER
    THEN IF a.save_name # <<>>
         THEN LET code == [name   |-> a.save_name,
                           text   |-> a.barcode_text,
                           format |-> IF a.barcode # None THEN a.barcode[1].format
                                      ELSE "Code128"]
                  b == [a EXCEPT !.saved_codes = Append(@, code)]
              IN  Result([b EXCEPT !.state = "Display"], save_codes(p, b.saved_codes), TRUE)
         ELSE Result(a, p, TRUE)
    ELSE IF key = KEY_BACKSPACE
    THEN Result([a EXCEPT !.save_name = pop(@)], p, TRUE)
    ELSE IF is_letter(key, 113) /\ a.save_name = <<>>
    THEN Result([a EXCEPT !.state = "Display"], p, TRUE)
    ELSE IF is_ascii_graphic(key) \/ key = 32
    THEN Result(IF str_len(a.save_name) < 30
                THEN [a EXCEPT !.save_name = Append(@, key)] ELSE a, p, TRUE)
    ELSE Result([a EXCEPT !.needs_redraw = FALSE], p, TRUE)

\* variant: the selection is not moved back after a deletion
handle_load_key_no_clamp(a, p, key) ==
    IF key = KEY_UP
    THEN Result(IF a.load_index > 0 THEN [a EXCEPT !.load_index = @ - 1] ELSE a, p, TRUE)
    ELSE IF key = KEY_DOWN
    THEN Result(IF a.saved_codes # <<>> /\ a.load_index < Len(a.saved_codes) - 1
                THEN [a EXCEPT !.load_index = @ + 1] ELSE a, p, TRUE)
    ELSE IF key = KEY_ENTER
    THEN IF a.saved_codes # <<>>
         THEN IF a.load_index >= Len(a.saved_codes) THEN Panicked(a, p)
              ELSE LET code == a.saved_codes[a.load_index + 1]
                       b == [a EXCEPT !.input_text = code.text,
                                      !.settings.format = code.format,
                                      !.settings.auto_format = FALSE]
                   IN  Result(generate_barcode(b), p, TRUE)
         ELSE Result(a, p, TRUE)
    ELSE IF is_letter(key, 100)
    THEN IF a.saved_codes # <<>>
         THEN IF a.load_index >= Len(a.saved_codes) THEN Panicked(a, p)
              ELSE LET b == [a EXCEPT !.saved_codes = remove_at(@, a.load_index)]
                       c == b
                   IN  Result(c, save_codes(p, b.saved_codes), TRUE)
         ELSE Result(a, p, TRUE)
    ELSE IF is_letter(key, 113)
    THEN Result([a EXCEPT !.state = "MainMenu"], p, TRUE)
    ELSE Result([a EXCEPT !.needs_redraw = FALSE], p, TRUE)

handle_load_key(a, p, key) ==
    IF key = KEY_UP
    THEN Result(IF a.load_index > 0 THEN [a EXCEPT !.load_index = @ - 1] ELSE a, p, TRUE)
    ELSE IF key = KEY_DOWN
    THEN Result(IF a.saved_codes # <<>> /\ a.load_index < Len(a.saved_codes) - 1
                THEN [a EXCEPT !.load_index = @ + 1] ELSE a, p, TRUE)
    ELSE IF key = KEY_ENTER
    THEN IF a.saved_codes # <<>>
         THEN IF a.load_index >= Len(a.saved_codes) THEN Panicked(a, p)
              ELSE LET code == a.saved_codes[a.load_index + 1]
                       b == [a EXCEPT !.input_text = code.text,
                                      !.settings.format = code.format,
                                      !.settings.auto_format = FALSE]
                   IN  Result(generate_barcode(b), p, TRUE)
         ELSE Result(a, p, TRUE)
    ELSE IF is_letter(key, 100)
    THEN IF a.saved_codes # <<>>
         THEN IF a.load_index >= Len(a.saved_codes) THEN Panicked(a, p)
              ELSE LET b == [a EXCEPT !.saved_codes = remove_at(@, a.load_index)]
                       c == IF b.load_index > 0 /\ b.load_index >= Len(b.saved_codes)
                            THEN [b EXCEPT !.load_index =
                                               saturating_sub(Len(b.saved_codes), 1)]
                            ELSE b
                   IN  Result(c, save_codes(p, b.saved_codes), TRUE)
         ELSE Result(a, p, TRUE)
    ELSE IF is_letter(key, 113)
    THEN Result([a EXCEPT !.state = "MainMenu"], p, TRUE)
    ELSE Result([a EXCEPT !.needs_redraw = FALSE], p, TRUE)

\* KEY_LEFT | KEY_RIGHT | KEY_ENTER on the bar width row
settings_width(a, key) ==
    IF key = KEY_RIGHT \/ key = KEY_ENTER
    THEN [a EXCEPT !.settings.bar_width = (@ % 4) + 1]
    ELSE [a EXCEPT !.settings.bar_width = IF @ <= 1 THEN 4 ELSE @ - 1]

\* KEY_LEFT | KEY_RIGHT | KEY_ENTER on the bar height row
settings_height(a, key) ==
    IF key = KEY_RIGHT \/ key = KEY_ENTER
    THEN [a EXCEPT !.settings.bar_height = Min((@ + 20) % 65536, 300)]
    ELSE [a EXCEPT !.settings.bar_height = Max(saturating_sub(@, 20), 80)]

handle_settings_key(a, p, key) ==
    IF key = KEY_UP
    THEN Result(IF a.settings_index > 0 THEN [a EXCEPT !.settings_index = @ - 1] ELSE a,
                p, TRUE)
    ELSE IF key = KEY_DOWN
    THEN Result(IF a.settings_index < 3 THEN [a EXCEPT !.settings_index = @ + 1] ELSE a,
                p, TRUE)
    ELSE IF key = KEY_LEFT \/ key = KEY_RIGHT \/ key = KEY_ENTER
    THEN LET b == CASE a.settings_index = 0 ->
                          [a EXCEPT !.settings.format = next_format(@)]
                    [] a.settings_index = 1 ->
                          [a EXCEPT !.settings.auto_format = ~@]
                    [] a.settings_index = 2 -> settings_width(a, key)
                    [] a.settings_index = 3 -> settings_height(a, key)
                    [] OTHER -> a
         IN  Result(b, save_settings(p, b.settings), TRUE)
    ELSE IF is_letter(key, 113)
    THEN Result([a EXCEPT !.state = "MainMenu"], p, TRUE)
    ELSE Result([a EXCEPT !.needs_redraw = FALSE], p, TRUE)

handle_help_key(a, p, key) ==
    IF is_letter(key, 113) \/ key = KEY_ENTER \/ key = KEY_BACKSPACE
    THEN Result([a EXCEPT !.state = "MainMenu"], p, TRUE)
    ELSE Result([a EXCEPT !.needs_redraw = FALSE], p, TRUE)

handle_key(a0, p, key) ==
    LET a == [a0 EXCEPT !.needs_redraw = TRUE] IN
    CASE a.state = "MainMenu"      -> handle_menu_key(a, p, key)
      [] a.state = "Input"         -> handle_input_key(a, p, key)
      [] a.state = "Display"       -> handle_display_key(a, p, key)
      [] a.state = "SavePrompt"    -> handle_save_prompt_key(a, p, key)
      [] a.state = "SaveNameEntry" -> handle_save_name_key(a, p, key)
      [] a.state = "LoadList"      -> handle_load_key(a, p, key)
      [] a.state = "Settings"      -> handle_settings_key(a, p, key)
      [] a.state = "Help"          -> handle_help_key(a, p, key)

\* ------------------------------------------------------------------------
\* Inputs
\* ------------------------------------------------------------------------

MaxShortLen == 2

MaxDigits == 14

\* control, space, '%', '*', ',', '0', '9', 'A', 'Z', 'a', 'z', '~', DEL,
\* U+00E9, U+012A (low byte '*'), U+0141 (low byte 'A'), U+0660 (a non-ASCII
\* decimal digit)
TextChars == {31, 32, 37, 42, 44, 48, 57, 65, 90, 97, 122, 126, 127, 233, 298, 321, 1632}

RECURSIVE SeqsUpTo(_, _)
SeqsUpTo(S, n) ==
    IF n = 0 THEN {<<>>}
    ELSE LET shorter == SeqsUpTo(S, n - 1) IN
         shorter \cup {Append(s, c) : s \in {t \in shorter : Len(t) = n - 1}, c \in S}

ShortTexts == SeqsUpTo(TextChars, MaxShortLen)

\* "400638133393"
EAN_SAMPLE == <<52, 48, 48, 54, 51, 56, 49, 51, 51, 51, 57, 51>>

\* "03600029145"
UPC_SAMPLE == <<48, 51, 54, 48, 48, 48, 50, 57, 49, 52, 53>>

\* the digits '0'..'9', a letter and a non-ASCII decimal digit
VaryChars == (48..57) \cup {65, 1632}

\* base repeated cyclically to n characters, with character p replaced by c
Varied(base, n, p, c) ==
    [[k \in 1..n |-> base[((k - 1) % Len(base)) + 1]] EXCEPT ![p] = c]

\* the n digits a, a+s, a+2s, ... (mod 10)
Arith(a, s, n) == [k \in 1..n |-> 48 + ((a + s * (k - 1)) % 10)]

DigitTexts ==
    {Varied(base, n, p, c) : base \in {EAN_SAMPLE, UPC_SAMPLE},
                             n \in 10..MaxDigits, p \in 1..10, c \in VaryChars}
    \cup {Varied(base, n, n, c) : base \in {EAN_SAMPLE, UPC_SAMPLE},
                                  n \in 10..MaxDigits, c \in VaryChars}
    \cup {Arith(a, s, n) : a \in 0..9, s \in 0..9, n \in 10..MaxDigits}

\* every character of the Code39 table on its own, the sentinel included
Code39Texts == {<<CODE39_CHARS[k]>> : k \in 1..Len(CODE39_CHARS)}

Texts == ShortTexts \cup DigitTexts \cup Code39Texts

\* ------------------------------------------------------------------------
\* The encoder as called by a client: one call per behaviour
\* ------------------------------------------------------------------------

\* the application is not running
AppIdle ==
    /\ app = BarcodeApp_new
    /\ pddb = EMPTY_PDDB
    /\ alive = FALSE
    /\ attempt = "none"
    /\ shown = <<>>
    /\ redrawn = FALSE

\* no run of encode_code128 is being followed
ScanIdle ==
    /\ c128_chars = <<>>
    /\ c128_i = 0
    /\ c128_set = "B"
    /\ c128_values = <<>>
    /\ c128_modules = <<>>
    /\ c128_pc = "idle"

Init ==
    /\ text \in Texts
    /\ format \in BarcodeFormat
    /\ pc = "idle"
    /\ ret = None
    /\ ScanIdle
    /\ AppIdle

Encode ==
    /\ pc = "idle"
    /\ pc' = "encode"
    /\ ret' = encode(text, format)
    /\ UNCHANGED <<text, format>>
    /\ UNCHANGED scanVars
    /\ UNCHANGED appVars

IsValid ==
    /\ pc = "idle"
    /\ pc' = "is_valid"
    /\ ret' = is_valid(text, format)
    /\ UNCHANGED <<text, format>>
    /\ UNCHANGED scanVars
    /\ UNCHANGED appVars

AutoDetect ==
    /\ pc = "idle"
    /\ pc' = "auto_detect"
    /\ ret' = auto_detect(text)
    /\ UNCHANGED <<text, format>>
    /\ UNCHANGED scanVars
    /\ UNCHANGED appVars

Next == Encode \/ IsValid \/ AutoDetect

Spec == Init /\ [][Next]_vars

\* ------------------------------------------------------------------------
\* encode_code128 followed statement by statement
\* ------------------------------------------------------------------------

MaxC128Len == 6

\* '1', '9', 'a' and DEL (outside 32..126)
C128Chars == {49, 57, 97, 127}

\* encode() hands over non-empty texts only
C128Texts == SeqsUpTo(C128Chars, MaxC128Len) \ {<<>>}

\* no call of the public functions is in progress
CallIdle ==
    /\ text = <<>>
    /\ format = "Code128"
    /\ pc = "idle"
    /\ ret = None

ScanInit ==
    /\ CallIdle
    /\ AppIdle
    /\ c128_chars \in C128Texts
    /\ c128_i = 0
    /\ c128_set = "B"
    /\ c128_values = <<>>
    /\ c128_modules = <<>>
    /\ c128_pc = "validate"

\* the validation and the choice of the start code
ScanValidate ==
    /\ c128_pc = "validate"
    /\ IF \A k \in 1..Len(c128_chars) : c128_chars[k] >= 32 /\ c128_chars[k] <= 126
       THEN LET start == code128_start(c128_chars) IN
            /\ c128_values' = <<start[1]>>
            /\ c128_set' = start[2]
            /\ c128_pc' = "scan"
       ELSE /\ c128_pc' = "failed"
            /\ UNCHANGED <<c128_values, c128_set>>
    /\ UNCHANGED <<c128_chars, c128_i, c128_modules>>
    /\ UNCHANGED callVars
    /\ UNCHANGED appVars

\* one iteration of the scanning loop
ScanStep ==
    /\ c128_pc = "scan"
    /\ c128_i < Len(c128_chars)
    /\ LET n == code128_iter(c128_chars, c128_i, c128_set, c128_values) IN
       /\ c128_i' = n.i
       /\ c128_set' = n.current_set
       /\ c128_values' = n.values
       /\ c128_pc' = IF n.ok THEN "scan" ELSE "failed"
    /\ UNCHANGED <<c128_chars, c128_modules>>
    /\ UNCHANGED callVars
    /\ UNCHANGED appVars

\* loop exit: the checksum and the stop symbol are appended
ScanChecksum ==
    /\ c128_pc = "scan"
    /\ ~(c128_i < Len(c128_chars))
    /\ c128_values' = c128_values \o <<code128_checksum(c128_values), STOP>>
    /\ c128_pc' = "modules"
    /\ UNCHANGED <<c128_chars, c128_i, c128_set, c128_modules>>
    /\ UNCHANGED callVars
    /\ UNCHANGED appVars

\* the values are converted to modules and the barcode is returned
ScanModules ==
    /\ c128_pc = "modules"
    /\ c128_modules' = code128_modules(c128_values)
    /\ c128_pc' = "done"
    /\ UNCHANGED <<c128_chars, c128_i, c128_set, c128_values>>
    /\ UNCHANGED callVars
    /\ UNCHANGED appVars

ScanNext == ScanValidate \/ ScanStep \/ ScanChecksum \/ ScanModules

SpecScan == ScanInit /\ [][ScanNext]_vars

\* the function runs to its return: no statement waits for anything
SpecScanLive == ScanInit /\ [][ScanNext]_vars /\ WF_vars(ScanNext)

\* ------------------------------------------------------------------------
\* The application driven by key presses (main.rs)
\* ------------------------------------------------------------------------

MaxInputLen == 2

MaxNameLen == 1

MaxSaved == 2

\* the characters entered as text: '1'
TypedChars == {49}

\* Enter, Up, Down, Backspace, '1', 'q', 's', 'd', F3
FlowKeys == {KEY_ENTER, KEY_UP, KEY_DOWN, KEY_BACKSPACE, 49, 113, 115, 100, KEY_F3}

\* Enter, Up, Down, Left, Right, '1', 'q'
GeometryKeys == {KEY_ENTER, KEY_UP, KEY_DOWN, KEY_LEFT, KEY_RIGHT, 49, 113}

\* a record with a text that is too short for its format, written by
\* something other than the save flow of this history
FOREIGN_PDDB ==
    [settings |-> None,
     index    |-> Some(<< <<120>> >>),
     codes    |-> (key_name(<<120>>) :> [text |-> Some(<<49>>), format |-> Some("ean13")])]

InitialStores == {EMPTY_PDDB, FOREIGN_PDDB}

\* what the user enters stays within the bounds
TextBounds(a) ==
    /\ Len(a.input_text) <= MaxInputLen
    /\ Len(a.save_name) <= MaxNameLen
    /\ Len(a.saved_codes) <= MaxSaved
    /\ a.state \in {"Input", "SaveNameEntry"} =>
           /\ \A k \in 1..Len(a.input_text) : a.input_text[k] \in TypedChars
           /\ \A k \in 1..Len(a.save_name) : a.save_name[k] \in TypedChars

\* the user leaves the bar geometry alone
GeometryKept(a) ==
    /\ a.settings.bar_width = DEFAULT_SETTINGS.bar_width
    /\ a.settings.bar_height = DEFAULT_SETTINGS.bar_height

\* the first start of the process: new(), init_storage() on the store found
AppInit ==
    /\ CallIdle
    /\ ScanIdle
    /\ pddb \in InitialStores
    /\ app = init_storage(BarcodeApp_new, pddb)
    /\ alive = TRUE
    /\ attempt = "none"
    /\ shown = [k \in 1..Len(app.saved_codes) |-> None]
    /\ redrawn = TRUE

\* the barcodes on display at save time, kept in step with saved_codes
shown_after(a, b) ==
    IF Len(b.saved_codes) = Len(a.saved_codes) + 1 THEN Append(shown, a.barcode)
    ELSE IF Len(b.saved_codes) + 1 = Len(a.saved_codes) THEN remove_at(shown, a.load_index)
    ELSE shown

\* the screen in which this key makes the handler call generate_barcode
generate_called(a, key) ==
    IF key = KEY_ENTER /\ a.state = "Input" /\ a.input_text # <<>> THEN "Input"
    ELSE IF key = KEY_ENTER /\ a.state = "LoadList" /\ a.load_index < Len(a.saved_codes)
    THEN "LoadList"
    ELSE "none"

\* a Rawkeys message carrying one key, received in the foreground: the key
\* is handled, then either the loop is left (save_state, exit) or the
\* screen is redrawn if needed
Rawkeys(key) ==
    /\ alive
    /\ \E r \in {handle_key(app, pddb, key)} :
       /\ IF r.cont
          THEN /\ app' = [r.app EXCEPT !.needs_redraw = FALSE]
               /\ pddb' = r.pddb
               /\ alive' = TRUE
          ELSE /\ app' = r.app
               /\ pddb' = IF r.app.state = "Panicked" THEN r.pddb
                          ELSE save_settings(r.pddb, r.app.settings)
               /\ alive' = FALSE
       /\ shown' = shown_after(app, r.app)
       /\ redrawn' = (r.cont /\ r.app.needs_redraw)
    /\ attempt' = generate_called(app, key)
    /\ UNCHANGED <<callVars, scanVars>>

\* the process is started again on the store the last run left behind
Launch ==
    /\ ~alive
    /\ app' = init_storage(BarcodeApp_new, pddb)
    /\ alive' = TRUE
    /\ attempt' = "none"
    /\ redrawn' = TRUE
    /\ shown' = IF Len(shown) = Len(load_codes(pddb)) THEN shown
                ELSE [k \in 1..Len(load_codes(pddb)) |-> None]
    /\ UNCHANGED pddb
    /\ UNCHANGED <<callVars, scanVars>>

\* the user stays on the first two menu items: New Barcode and Saved Codes
FlowScreens(a) == a.menu_index <= 1

FlowKey ==
    \E key \in FlowKeys :
        Rawkeys(key) /\ TextBounds(app') /\ GeometryKept(app') /\ FlowScreens(app')

AppNext == FlowKey \/ Launch

SpecApp == AppInit /\ [][AppNext]_vars

GeometryKey ==
    \E key \in GeometryKeys : Rawkeys(key) /\ TextBounds(app')

GeometryNext == GeometryKey \/ Launch

\* the first start, on an empty store: the default settings
GeometryInit ==
    /\ AppInit
    /\ pddb = EMPTY_PDDB

SpecGeometry == GeometryInit /\ [][GeometryNext]_vars

\* ------------------------------------------------------------------------
\* All screens, on a store that earlier runs have filled
\* ------------------------------------------------------------------------

\* n entries saved earlier: "a" -> "1" (Code128), "b" -> "1" (Code39), ...
SavedSample(n) ==
    [k \in 1..n |-> [name   |-> <<96 + k>>,
                     text   |-> <<49>>,
                     format |-> IF k % 2 = 1 THEN "Code128" ELSE "Code39"]]

ScreenStores == {EMPTY_PDDB} \cup {save_codes(EMPTY_PDDB, SavedSample(n)) : n \in 1..MaxSaved}

\* Enter, Up, Down, '1', 'q', 's', 'd'
ScreenKeys == {KEY_ENTER, KEY_UP, KEY_DOWN, 49, 113, 115, 100}

ScreenInit ==
    /\ CallIdle
    /\ ScanIdle
    /\ pddb \in ScreenStores
    /\ app = init_storage(BarcodeApp_new, pddb)
    /\ alive = TRUE
    /\ attempt = "none"
    /\ shown = [k \in 1..Len(app.saved_codes) |-> None]
    /\ redrawn = TRUE

\* the user types no name, so nothing is saved
ScreenKey ==
    \E key \in ScreenKeys :
        Rawkeys(key) /\ TextBounds(app') /\ GeometryKept(app') /\ app'.save_name = <<>>

ScreenNext == ScreenKey \/ Launch

SpecScreens == ScreenInit /\ [][ScreenNext]_vars

\* ------------------------------------------------------------------------
\* The Input screen with a typed text, Enter and the format keys
\* ------------------------------------------------------------------------

\* the texts that can be typed in the Input screen
TypedTexts == {t \in Texts : \A k \in 1..Len(t) : is_ascii_graphic(t[k]) \/ t[k] = 32}

\* Enter, F1..F4
InputKeys == {KEY_ENTER, KEY_F1, KEY_F2, KEY_F3, KEY_F4}

\* the Input screen after the user has typed a text; the format and the
\* auto-detect switch are as the Settings screen left them
InputInit ==
    /\ CallIdle
    /\ ScanIdle
    /\ pddb = EMPTY_PDDB
    /\ \E t \in TypedTexts, f \in BarcodeFormat, au \in BOOLEAN :
           app = [init_storage(BarcodeApp_new, pddb) EXCEPT
                      !.state = "Input",
                      !.input_text = t,
                      !.settings.format = f,
                      !.settings.auto_format = au,
                      !.needs_redraw = FALSE]
    /\ alive = TRUE
    /\ attempt = "none"
    /\ shown = <<>>
    /\ redrawn = TRUE

InputKey == \E key \in InputKeys : Rawkeys(key)

SpecInput == InputInit /\ [][InputKey]_vars

\* ------------------------------------------------------------------------
\* Rawkeys messages of several keys
\* ------------------------------------------------------------------------

\* the character an unused slot of a Rawkeys message carries
NUL == 0

\* the slots of a message: k1, k2, k3, k4
MessageSlots == 4

\* the leading slots that carry keys here; the others hold NUL
MaxKeys == 2

MessageKeys == {NUL, KEY_ENTER, KEY_UP, KEY_DOWN, 49, 113}

Messages ==
    {keys \in [1..MessageSlots -> MessageKeys] :
        \A k \in (MaxKeys + 1)..MessageSlots : keys[k] = NUL}

\* shown_after for one key of a message, on the list kept so far
shown_step(sh, a, b) ==
    IF Len(b.saved_codes) = Len(a.saved_codes) + 1 THEN Append(sh, a.barcode)
    ELSE IF Len(b.saved_codes) + 1 = Len(a.saved_codes) THEN remove_at(sh, a.load_index)
    ELSE sh

\* one pass of the for loop over the keys of a message: a NUL slot is skipped,
\* and after the key whose handler returned false (break) nothing is handled
handle_slot(m, key) ==
    IF ~m.cont \/ key = NUL THEN m
    ELSE CHOOSE n \in {[app |-> r.app, pddb |-> r.pddb, cont |-> r.cont,
                        attempt |-> generate_called(m.app, key),
                        shown |-> shown_step(m.shown, m.app, r.app)] :
                       r \in {handle_key(m.app, m.pddb, key)}} : TRUE

\* a Rawkeys message received in the foreground: its four slots are handled
\* in order, then either the loop is left (save_state, exit) or the screen
\* is drawn if needs_redraw is still set
RawkeysMessage(keys) ==
    /\ alive
    /\ \E m1 \in {handle_slot([app |-> app, pddb |-> pddb, cont |-> TRUE,
                               attempt |-> "none", shown |-> shown], keys[1])} :
       \E m2 \in {handle_slot(m1, keys[2])} :
       \E m3 \in {handle_slot(m2, keys[3])} :
       \E m \in {handle_slot(m3, keys[4])} :
           /\ IF m.cont
              THEN /\ app' = [m.app EXCEPT !.needs_redraw = FALSE]
                   /\ pddb' = m.pddb
                   /\ alive' = TRUE
              ELSE /\ app' = m.app
                   /\ pddb' = IF m.app.state = "Panicked" THEN m.pddb
                              ELSE save_settings(m.pddb, m.app.settings)
                   /\ alive' = FALSE
           /\ shown' = m.shown
           /\ attempt' = m.attempt
           /\ redrawn' = (m.cont /\ m.app.needs_redraw)
    /\ UNCHANGED <<callVars, scanVars>>

\* the first start of the process on an empty store
MessageInit ==
    /\ AppInit
    /\ pddb = EMPTY_PDDB

MessageKey ==
    \E keys \in Messages :
        /\ RawkeysMessage(keys)
        /\ TextBounds(app')
        /\ GeometryKept(app')

MessageNext == MessageKey \/ Launch

SpecMessages == MessageInit /\ [][MessageNext]_vars

\* the run followed step by step returns what encode_code128 returns
ScanAgreesWithEncode ==
    /\ c128_pc = "done" =>
           encode_code128(c128_chars) =
               Some([modules |-> c128_modules, text |-> c128_chars, format |-> "Code128"])
    /\ c128_pc = "failed" => encode_code128(c128_chars) = None

\* ------------------------------------------------------------------------
\* Properties
\* ------------------------------------------------------------------------

\* ASCII uppercasing as the properties state it
Upper(s) == [k \in 1..Len(s) |-> IF s[k] \in 97..122 THEN s[k] - 32 ELSE s[k]]

\* the 43 characters 0-9, A-Z, '-', '.', ' ', '$', '/', '+', '%'
Alphabet43 == (48..57) \cup (65..90) \cup {45, 46, 32, 36, 47, 43, 37}

DigitsOnly(s) == \A k \in 1..Len(s) : s[k] \in 48..57

\* C1: whenever is_valid(text, format) is false, encode(text, format)
\* returns None, for each of the four formats.
C1_InvalidImpliesEncodeFails ==
    (pc = "encode" /\ ~is_valid(text, format)) => ret = None

\* C2: every successful encode returns a non-empty module sequence whose
\* first and last 10 modules (Code128, Code39) or 9 modules (EAN-13, UPC-A)
\* are light.
C2_QuietZone ==
    (pc = "encode" /\ ret # None) =>
        LET m == ret[1].modules
            q == IF format \in {"Code128", "Code39"} THEN 10 ELSE 9
        IN  /\ Len(m) > 0
            /\ Len(m) >= q
            /\ \A k \in 1..q : m[k] = FALSE /\ m[Len(m) + 1 - k] = FALSE

C2_Witness ==
    /\ pc = "encode"
    /\ format = "Code128"
    /\ ret # None
    /\ Len(text) = 2
    /\ \E k \in 1..Len(ret[1].modules) : ret[1].modules[k]

\* the check digit as the properties state it: weights we at even and wo at
\* odd 0-based positions of the first n characters of s
SpecSum(s, n, we, wo) ==
    LET d(k) == s[k] - 48
        term(k) == IF k <= n THEN d(k) * (IF (k - 1) % 2 = 0 THEN we ELSE wo) ELSE 0
    IN  term(1) + term(2) + term(3) + term(4) + term(5) + term(6)
        + term(7) + term(8) + term(9) + term(10) + term(11) + term(12)

SpecCheck(s, n, we, wo) == (10 - (SpecSum(s, n, we, wo) % 10)) % 10

\* C3: for every all-digit input of 12 or 13 digits, encode(text, Ean13)
\* succeeds and displays the first 12 digits followed by the check digit
\* (10 - (sum mod 10)) mod 10 with weights 1 (even) and 3 (odd); a 13th
\* input digit has no influence; "400638133393" gives "4006381333931".
C3_Ean13Display ==
    (pc = "encode" /\ format = "Ean13" /\ DigitsOnly(text) /\ Len(text) \in {12, 13}) =>
        /\ ret # None
        /\ ret[1].text = SubSeq(text, 1, 12) \o <<48 + SpecCheck(text, 12, 1, 3)>>
        /\ (text = EAN_SAMPLE =>
               ret[1].text = <<52, 48, 48, 54, 51, 56, 49, 51, 51, 51, 57, 51, 49>>)

C3_Witness ==
    /\ pc = "encode"
    /\ format = "Ean13"
    /\ DigitsOnly(text)
    /\ Len(text) = 13
    /\ ret # None
    /\ ret[1].text[13] # text[13]

\* C4: for every all-digit input of 11 or 12 digits, encode(text, UpcA)
\* succeeds and displays exactly 12 digits: the first 11 input digits
\* followed by the check digit with weights 3 (even) and 1 (odd); a 12th
\* input digit is overwritten; "03600029145" gives "036000291452".
C4_UpcADisplay ==
    (pc = "encode" /\ format = "UpcA" /\ DigitsOnly(text) /\ Len(text) \in {11, 12}) =>
        /\ ret # None
        /\ Len(ret[1].text) = 12
        /\ ret[1].text = SubSeq(text, 1, 11) \o <<48 + SpecCheck(text, 11, 3, 1)>>
        /\ (text = UPC_SAMPLE =>
               ret[1].text = <<48, 51, 54, 48, 48, 48, 50, 57, 49, 52, 53, 50>>)

C4_Witness ==
    /\ pc = "encode"
    /\ format = "UpcA"
    /\ DigitsOnly(text)
    /\ Len(text) = 12
    /\ ret # None
    /\ ret[1].text[12] # text[12]

\* C5: a successful encode(text, UpcA) has the modules of the EAN-13
\* encoding of "0" followed by its 12 display digits, displays that EAN-13
\* display text without the leading 0, and has format UpcA.
C5_UpcAIsEan13WithLeadingZero ==
    (pc = "encode" /\ format = "UpcA" /\ ret # None) =>
        LET ean == encode(<<48>> \o ret[1].text, "Ean13") IN
        /\ ean # None
        /\ ret[1].modules = ean[1].modules
        /\ Len(ean[1].text) = 13
        /\ ean[1].text[1] = 48
        /\ ret[1].text = Tail(ean[1].text)
        /\ ret[1].format = "UpcA"
        /\ ean[1].format = "Ean13"

C5_Witness ==
    /\ pc = "encode"
    /\ format = "UpcA"
    /\ ret # None
    /\ Len(text) = 11
    /\ ret[1].text[12] # 48

\* C6: encode(text, Code39) and encode(uppercase(text), Code39) both fail,
\* or both succeed with the same modules and the same display text, which
\* is the uppercased input.
C6_Code39CaseInsensitive ==
    (pc = "encode" /\ format = "Code39") =>
        LET up == encode(Upper(text), "Code39") IN
        \/ ret = None /\ up = None
        \/ /\ ret # None
           /\ up # None
           /\ ret[1].modules = up[1].modules
           /\ ret[1].text = up[1].text
           /\ ret[1].text = Upper(text)

C6_Witness ==
    /\ pc = "encode"
    /\ format = "Code39"
    /\ ret # None
    /\ text # Upper(text)

\* the ordered rule list of auto-detection as the property states it
SpecDetect(s) ==
    IF DigitsOnly(s) /\ Len(s) = 13 THEN "Ean13"
    ELSE IF DigitsOnly(s) /\ Len(s) = 12 THEN "UpcA"
    ELSE IF \A k \in 1..Len(s) : s[k] \in Alphabet43 THEN "Code39"
    ELSE "Code128"

\* C7: auto_detect follows the ordered rules (13 digits: Ean13; 12 digits:
\* UpcA; all characters in the Code39 alphabet: Code39; otherwise Code128);
\* lowercase letters, '*' and ',' force Code128, and digit strings of any
\* other length give Code39.
C7_AutoDetectRules ==
    pc = "auto_detect" =>
        /\ ret = SpecDetect(text)
        /\ ((\E k \in 1..Len(text) : text[k] \in (97..122) \cup {42, 44})
               => ret = "Code128")
        /\ ((DigitsOnly(text) /\ Len(text) \notin {12, 13}) => ret = "Code39")

C7_Witness ==
    /\ pc = "auto_detect"
    /\ DigitsOnly(text)
    /\ Len(text) = 12
    /\ ret = "UpcA"

\* C8: is_valid(text, Code39) is true exactly when every character of the
\* uppercased text is in the 43-character alphabet (lowercase accepted,
\* '*' rejected).
C8_IsValidCode39CaseInsensitive ==
    (pc = "is_valid" /\ format = "Code39") =>
        (ret <=> \A k \in 1..Len(text) : Upper(text)[k] \in Alphabet43)

\* C9: encode(text, Code39) fails whenever the uppercased text has a
\* character outside the 43-character alphabet, '*' and code points of 256
\* or more included.
C9_Code39RejectsOutsideAlphabet ==
    (pc = "encode" /\ format = "Code39"
        /\ \E k \in 1..Len(text) : Upper(text)[k] \notin Alphabet43) => ret = None

\* C10: encode(text, Ean13) succeeds iff text is all ASCII digits of length
\* 12 or 13; encode(text, UpcA) succeeds iff text is all ASCII digits of
\* length 11 or 12.
C10_EanUpcAcceptance ==
    /\ (pc = "encode" /\ format = "Ean13") =>
           (ret # None <=> (DigitsOnly(text) /\ Len(text) \in {12, 13}))
    /\ (pc = "encode" /\ format = "UpcA") =>
           (ret # None <=> (DigitsOnly(text) /\ Len(text) \in {11, 12}))

C10_Witness ==
    /\ pc = "encode"
    /\ format = "Ean13"
    /\ DigitsOnly(text)
    /\ Len(text) = 14
    /\ ret = None

\* C11: encode(text, Code128) succeeds iff text is non-empty and every
\* code point is in 32..126.
C11_Code128Acceptance ==
    (pc = "encode" /\ format = "Code128") =>
        (ret # None <=> (Len(text) > 0 /\ \A k \in 1..Len(text) : text[k] \in 32..126))

C11_Witness ==
    /\ pc = "encode"
    /\ format = "Code128"
    /\ Len(text) = 2
    /\ text[1] = 32
    /\ text[2] = 127
    /\ ret = None

\* C12: encode of the empty text fails for each of the four formats (the
\* dispatcher rejects it before a format-specific encoder runs).
C12_EmptyTextFails ==
    (pc = "encode" /\ text = <<>>) => ret = None

C12_Witness ==
    /\ pc = "encode"
    /\ text = <<>>
    /\ format = "Code39"
    /\ ret = None

\* what the key press that called generate_barcode handed to encode
SpecPassed ==
    IF attempt' = "Input"
    THEN [text |-> app.input_text,
          format |-> IF app.settings.auto_format THEN auto_detect(app.input_text)
                     ELSE app.settings.format]
    ELSE [text |-> app.saved_codes[app.load_index + 1].text,
          format |-> app.saved_codes[app.load_index + 1].format]

\* the part of the app's state a failed encode has to leave alone
SpecOwnState(a) == <<a.state, a.barcode, a.barcode_text, a.input_text, a.settings>>

\* C13: a key press that makes the app call encode (Enter in Input, Enter on
\* an entry in LoadList) and whose encode fails leaves the screen state,
\* barcode, barcode_text, input_text and settings as they were before the key
C13_FailedEncodeKeepsState ==
    [][(attempt' # "none" /\ encode(SpecPassed.text, SpecPassed.format) = None)
         => SpecOwnState(app') = SpecOwnState(app)]_vars

\* C14: Enter in LoadList on an entry that was saved through the save flow
\* succeeds, moves to Display and regenerates the barcode (modules, display
\* text, format) that was on display when the entry was saved
C14_LoadRegeneratesSaved ==
    [][(attempt' = "LoadList" /\ shown[app.load_index + 1] # None)
         => /\ app'.state = "Display"
            /\ app'.barcode = shown[app.load_index + 1]]_vars

\* C15: for every list of saved entries the app produces, load_codes after
\* save_codes(list) returns the same list: same order, same name, text and
\* format for each entry
C15_PersistenceRoundTrip ==
    load_codes(save_codes(pddb, app.saved_codes)) = app.saved_codes

\* C16: from the default settings, after any sequence of key presses in any
\* screens, 1 <= bar_width <= 4 and 80 <= bar_height <= 300
C16_GeometryInRange ==
    /\ 1 <= app.settings.bar_width /\ app.settings.bar_width <= 4
    /\ 80 <= app.settings.bar_height /\ app.settings.bar_height <= 300

\* the height was raised to its limit in Display and the width lowered to its
\* limit, and the settings were written through
C16_Witness ==
    /\ app.state = "Display"
    /\ app.settings.bar_height = 300
    /\ app.settings.bar_width = 1
    /\ load_settings(pddb) = Some(app.settings)

\* number of places where a module sequence changes between dark and light
Transitions(m) == Cardinality({k \in 1..(Len(m) - 1) : m[k] # m[k + 1]})

\* 11 modules, bar/space alternating over 6 elements, starting with a bar
IsSymbol11(m) == Len(m) = 11 /\ m[1] /\ ~m[11] /\ Transitions(m) = 5

\* C17: in a Code128 encode every symbol before the stop symbol expands to
\* exactly 11 modules alternating bar/space from a bar, the stop symbol to
\* 13, so k symbols before the stop give 10 + 11*k + 13 + 10 modules.
C17_Code128SymbolWidths ==
    c128_pc = "done" =>
        LET k == Len(c128_values) - 1 IN
        /\ \A j \in 1..k :
               IsSymbol11(pattern_to_modules(CODE128_PATTERNS[c128_values[j] + 1]))
        /\ Len(STOP_MODS) = 13
        /\ Len(c128_modules) = 10 + 11 * k + 13 + 10

\* the two-state machine as the property states it (positions 1-based)
SpecDigitsAhead(s, p, n) ==
    \A j \in 0..(n - 1) : p + j <= Len(s) /\ s[p + j] \in 48..57

RECURSIVE SpecEmit(_, _, _)
SpecEmit(s, p, set) ==
    IF p > Len(s) THEN <<>>
    ELSE IF set = "C"
    THEN IF SpecDigitsAhead(s, p, 2)
         THEN <<10 * (s[p] - 48) + (s[p + 1] - 48)>> \o SpecEmit(s, p + 2, "C")
         ELSE <<100>> \o SpecEmit(s, p, "B")
    ELSE IF SpecDigitsAhead(s, p, 4)
         THEN <<99>> \o SpecEmit(s, p, "C")
         ELSE <<s[p] - 32>> \o SpecEmit(s, p + 1, "B")

SpecValues(s) ==
    IF SpecDigitsAhead(s, 1, 4) THEN <<105>> \o SpecEmit(s, 1, "C")
    ELSE <<104>> \o SpecEmit(s, 1, "B")

\* C18: the values emitted before the checksum are exactly those of the
\* two-state machine (start 105 on 4 leading digits else 104; in C a digit
\* pair or switch code 100; in B switch code 99 on 4 digits ahead or
\* code_point - 32).
C18_Code128StateMachine ==
    /\ c128_pc = "scan" =>
           /\ Len(c128_values) <= Len(SpecValues(c128_chars))
           /\ c128_values = SubSeq(SpecValues(c128_chars), 1, Len(c128_values))
    /\ c128_pc \in {"modules", "done"} =>
           SubSeq(c128_values, 1, Len(c128_values) - 2) = SpecValues(c128_chars)

C18_Witness ==
    /\ c128_pc = "done"
    /\ \E j \in 1..Len(c128_values) : j > 1 /\ c128_values[j] = 99
    /\ \E j \in 1..Len(c128_values) : j > 1 /\ c128_values[j] = 100
    /\ c128_values[1] = 104

RECURSIVE SpecWeighted(_, _)
\* sum of v_p * p for p = 1..n, v_p the p-th value after the start code
SpecWeighted(v, n) == IF n < 1 THEN 0 ELSE v[n + 1] * n + SpecWeighted(v, n - 1)

\* C19: the checksum symbol is (start + sum of v_p * p) mod 103, is in
\* 0..102, and the emitted sequence ends with that checksum followed by the
\* stop symbol, with no other stop symbol in it.
C19_Code128Checksum ==
    c128_pc \in {"modules", "done"} =>
        LET n == Len(c128_values)
            d == SubSeq(c128_values, 1, n - 2)
        IN  /\ n >= 3
            /\ c128_values[n] = 106
            /\ c128_values[n - 1] = (d[1] + SpecWeighted(d, Len(d) - 1)) % 103
            /\ c128_values[n - 1] \in 0..102
            /\ \A k \in 1..(n - 1) : c128_values[k] # 106

C19_Witness ==
    /\ c128_pc = "done"
    /\ Len(c128_values) >= 6
    /\ c128_values[1] = 105
    /\ c128_values[Len(c128_values) - 1] > 0

\* the table row of a character of the Code39 alphabet
SpecC39Row(c) == CODE39_PATTERNS[CHOOSE k \in 1..Len(CODE39_CHARS) : CODE39_CHARS[k] = c]

RECURSIVE SpecC39Bars(_, _)
\* elements j..9 of a row: narrow = 1 module, wide = 3, odd elements dark
SpecC39Bars(row, j) ==
    IF j > 9 THEN <<>>
    ELSE LET w == IF row[j] = 1 THEN 3 ELSE 1 IN
         [k \in 1..w |-> j % 2 = 1] \o SpecC39Bars(row, j + 1)

RECURSIVE SpecC39Data(_, _)
SpecC39Data(s, p) ==
    IF p > Len(s) THEN <<>>
    ELSE SpecC39Bars(SpecC39Row(s[p]), 1) \o <<FALSE>> \o SpecC39Data(s, p + 1)

SpecC39Layout(s) ==
    LET quiet == [k \in 1..10 |-> FALSE]
        star  == SpecC39Bars(SpecC39Row(42), 1)
    IN  quiet \o star \o <<FALSE>> \o SpecC39Data(s, 1) \o star \o quiet

\* C20: for a Code39-valid text of n characters the modules are 10 light,
\* the '*' pattern, a light gap, each character's 15-module pattern
\* followed by a light gap, the '*' pattern and 10 light: 16*n + 51 in all.
C20_Code39Layout ==
    (pc = "encode" /\ format = "Code39" /\ Len(text) >= 1
        /\ \A k \in 1..Len(text) : Upper(text)[k] \in Alphabet43) =>
        /\ ret # None
        /\ ret[1].modules = SpecC39Layout(Upper(text))
        /\ \A k \in 1..Len(text) : Len(SpecC39Bars(SpecC39Row(Upper(text)[k]), 1)) = 15
        /\ Len(ret[1].modules) = 16 * Len(text) + 51

C20_Witness ==
    /\ pc = "encode"
    /\ format = "Code39"
    /\ ret # None
    /\ Len(text) = 2
    /\ text[1] = 97
    /\ text[2] = 37

\* the 13 digits an EAN-13 or UPC-A encode of s lays out: for EAN-13 the
\* first 12 digits and their check digit, for UPC-A a 0, the first 11 digits
\* and their check digit
SpecEanDigits(s, f) ==
    IF f = "Ean13"
    THEN [k \in 1..13 |-> IF k <= 12 THEN s[k] - 48 ELSE SpecCheck(s, 12, 1, 3)]
    ELSE [k \in 1..13 |-> IF k = 1 THEN 0
                          ELSE IF k <= 12 THEN s[k - 1] - 48
                          ELSE SpecCheck(s, 11, 3, 1)]

\* module k (1..113) of the layout the property states for the digits d
SpecEanModule(d, k) ==
    IF k <= 9 THEN FALSE
    ELSE IF k <= 12 THEN <<TRUE, FALSE, TRUE>>[k - 9]
    ELSE IF k <= 54
    THEN LET j == (k - 13) \div 7
             table == IF EAN_PARITY[d[1] + 1][j + 1] = 0 THEN EAN_L_PATTERNS
                      ELSE EAN_G_PATTERNS
         IN  table[d[j + 2] + 1][((k - 13) % 7) + 1]
    ELSE IF k <= 59 THEN <<FALSE, TRUE, FALSE, TRUE, FALSE>>[k - 54]
    ELSE IF k <= 101
    THEN EAN_R_PATTERNS[d[((k - 60) \div 7) + 8] + 1][((k - 60) % 7) + 1]
    ELSE IF k <= 104 THEN <<TRUE, FALSE, TRUE>>[k - 101]
    ELSE FALSE

\* C21: every successful EAN-13 or UPC-A encode has exactly 113 modules: 9
\* light, start guard 1,0,1, six 7-module left digits (digits 1-6, L or G
\* table as the parity row of digit 0 selects, 0 = L, 1 = G), center guard
\* 0,1,0,1,0, six 7-module right digits (digits 7-12, R table), end guard
\* 1,0,1, 9 light; for UPC-A all six left digits use the L table.
C21_EanLayout ==
    (pc = "encode" /\ format \in {"Ean13", "UpcA"} /\ ret # None) =>
        LET d == SpecEanDigits(text, format)
            m == ret[1].modules
        IN  /\ Len(m) = 113
            /\ \A k \in 1..113 : m[k] = SpecEanModule(d, k)
            /\ format = "UpcA" =>
                   \A j \in 0..5 :
                       SubSeq(m, 13 + 7 * j, 19 + 7 * j) = EAN_L_PATTERNS[d[j + 2] + 1]

\* an EAN-13 encode whose leading digit selects the G table for a left digit
C21_Witness ==
    /\ pc = "encode"
    /\ format = "Ean13"
    /\ ret # None
    /\ Len(ret[1].modules) = 113
    /\ \E j \in 1..6 : EAN_PARITY[text[1] - 48 + 1][j] = 1

\* C22: for the 11 digits d of a UPC-A input, the UPC check digit of d equals
\* the EAN-13 check digit of 0 followed by d, and the check digit in the
\* display text of the UPC-A barcode is the digit the modules encode as the
\* 13th digit (modules 95..101, R table)
C22_UpcCheckIsEanCheck ==
    (pc = "encode" /\ format = "UpcA" /\ ret # None) =>
        LET d == [k \in 1..11 |-> text[k] - 48] IN
        /\ upc_check_digit(d) = ean13_check_digit(<<0>> \o d)
        /\ upc_check_digit(d) = SpecCheck(text, 11, 3, 1)
        /\ \A c \in 0..9 :
               (SubSeq(ret[1].modules, 95, 101) = EAN_R_PATTERNS[c + 1])
                   <=> (ret[1].text[12] = 48 + c)

\* a UPC-A encode of 12 digits whose last digit is not the check digit
C22_Witness ==
    /\ pc = "encode"
    /\ format = "UpcA"
    /\ ret # None
    /\ Len(text) = 12
    /\ text[12] - 48 # SpecCheck(text, 11, 3, 1)
    /\ SpecCheck(text, 11, 3, 1) # 0

RECURSIVE SpecDecode(_, _, _)
\* the text the data values v[p..] stand for when read in subset `set`; a
\* value with no meaning in the subset reads as the code point -1
SpecDecode(v, p, set) ==
    IF p > Len(v) THEN <<>>
    ELSE IF set = "B"
    THEN IF v[p] < 95 THEN <<v[p] + 32>> \o SpecDecode(v, p + 1, "B")
         ELSE IF v[p] = 99 THEN SpecDecode(v, p + 1, "C")
         ELSE <<-1>>
    ELSE IF v[p] < 100
         THEN <<48 + (v[p] \div 10), 48 + (v[p] % 10)>> \o SpecDecode(v, p + 1, "C")
         ELSE IF v[p] = 100 THEN SpecDecode(v, p + 1, "B")
         ELSE <<-1>>

\* start 104 = B, 105 = C
SpecDecodeFromStart(v) ==
    IF v[1] = 104 THEN SpecDecode(v, 2, "B")
    ELSE IF v[1] = 105 THEN SpecDecode(v, 2, "C")
    ELSE <<-1>>

\* C23: decoding the emitted values with the standard subset semantics gives
\* back the input text: during the scan the values emitted so far decode to
\* the characters consumed so far, and the finished sequence (without
\* checksum and stop) decodes to the whole text
C23_Code128RoundTrip ==
    /\ (c128_pc = "scan" /\ c128_values # <<>>) =>
           SpecDecodeFromStart(c128_values) = SubSeq(c128_chars, 1, c128_i)
    /\ c128_pc \in {"modules", "done"} =>
           SpecDecodeFromStart(SubSeq(c128_values, 1, Len(c128_values) - 2)) = c128_chars

\* a finished encode that started in subset C, switched to B and emitted a
\* subset B character
C23_Witness ==
    /\ c128_pc = "done"
    /\ c128_values[1] = 105
    /\ \E j \in 2..(Len(c128_values) - 3) :
           c128_values[j] = 100 /\ c128_values[j + 1] < 95
    /\ Len(c128_chars) = MaxC128Len

\* the iteration at the current position consumes at least one character
SpecConsumes ==
    /\ c128_i < Len(c128_chars)
    /\ c128_set = "C" => SpecDigitsAhead(c128_chars, c128_i + 1, 2)
    /\ c128_set = "B" => /\ ~SpecDigitsAhead(c128_chars, c128_i + 1, 4)
                         /\ c128_chars[c128_i + 1] \in 32..126

\* an iteration either switches the subset and stays, or keeps the subset
\* and advances by 1 or 2; after a switch and after the start code the next
\* iteration consumes
SpecScanProgress ==
    /\ (c128_pc = "validate" /\ c128_pc' = "scan") => SpecConsumes'
    /\ (c128_pc = "scan" /\ c128_pc' = "scan") =>
           /\ Len(c128_values') = Len(c128_values) + 1
           /\ \/ c128_set' # c128_set /\ c128_i' = c128_i /\ SpecConsumes'
              \/ c128_set' = c128_set /\ c128_i' \in {c128_i + 1, c128_i + 2}

\* C24: the scanning loop terminates for every valid text: a switch code is
\* followed by an iteration that consumes a character (no two switch codes
\* in a row, no 100 right after start code 105), the number of iterations
\* (values after the start code) is at most twice the text length, and the
\* function returns
C24_Code128ScanTerminates ==
    /\ [][SpecScanProgress]_vars
    /\ [](c128_pc = "scan" =>
            /\ c128_i <= Len(c128_chars)
            /\ Len(c128_values) - 1 <= 2 * Len(c128_chars)
            /\ (Len(c128_values) >= 2 /\ c128_values[1] = 105) => c128_values[2] # 100)
    /\ <>(c128_pc \in {"done", "failed"})

\* a finished scan that switched to C and back to B: as many iterations as
\* characters, two of them switches
C24_Witness ==
    /\ c128_pc = "done"
    /\ c128_i = Len(c128_chars)
    /\ Len(c128_values) - 3 = Len(c128_chars)
    /\ \E j \in 2..Len(c128_values) : c128_values[j] = 100
    /\ c128_values[1] = 104

\* the symbol values the encoder can emit before the stop symbol
SpecEmittable == (0..102) \cup {104, 105}

\* C25: every symbol of a finished Code128 encode (stop symbol aside) has a
\* module pattern that no other value among 0-102, 104 and 105 has, so a
\* scanner can identify its value
C25_Code128PatternsDistinct ==
    c128_pc = "done" =>
        \A j \in 1..(Len(c128_values) - 1) :
            \A w \in SpecEmittable \ {c128_values[j]} :
                pattern_to_modules(CODE128_PATTERNS[w + 1])
                    # pattern_to_modules(CODE128_PATTERNS[c128_values[j] + 1])

\* the format the Input screen shows for the text typed so far
SpecShownFormat ==
    IF app.settings.auto_format /\ app.input_text # <<>>
    THEN auto_detect(app.input_text)
    ELSE app.settings.format

\* the status line of the Input screen reports the non-empty input as "OK"
SpecStatusOK ==
    /\ app.state = "Input"
    /\ app.input_text # <<>>
    /\ is_valid(app.input_text, SpecShownFormat)

\* Enter was pressed in the Input screen, a barcode of the shown format was
\* produced from the text and the app moved to Display
SpecEnterSucceeded ==
    /\ attempt' = "Input"
    /\ app'.state = "Display"
    /\ app'.barcode # None
    /\ app'.barcode[1].format = SpecShownFormat
    /\ app'.barcode_text = app.input_text

\* the digits typed so far are as many as the format asks for
SpecLongEnough ==
    /\ SpecShownFormat = "Ean13" => Len(app.input_text) >= 12
    /\ SpecShownFormat = "UpcA" => Len(app.input_text) >= 11

\* C26 as stated: whenever the status line reports the non-empty input as
\* "OK", pressing Enter produces a barcode and moves the app to Display
C26_StatusOkEnterSucceeds ==
    [][(SpecStatusOK /\ attempt' = "Input") => SpecEnterSucceeded]_vars

\* C26 amended: whenever the status line reports the non-empty input as "OK"
\* and the input has at least 12 characters for Ean13, at least 11 for UpcA,
\* pressing Enter produces a barcode and moves the app to Display
C26_StatusOkFullLengthEnterSucceeds ==
    [][(SpecStatusOK /\ SpecLongEnough /\ attempt' = "Input") => SpecEnterSucceeded]_vars

\* Enter has produced a UPC-A barcode from a manually chosen format
C26_Witness ==
    /\ attempt = "Input"
    /\ app.state = "Display"
    /\ ~app.settings.auto_format
    /\ app.barcode # None
    /\ app.barcode[1].format = "UpcA"
    /\ is_valid(app.input_text, "UpcA")

\* C27: while auto-detect is enabled, Enter in the Input screen with a
\* non-empty typed text always succeeds: encode(input_text,
\* auto_detect(input_text)) returns a barcode, which becomes the app's
\* barcode, and the app moves to Display
C27_AutoDetectEnterSucceeds ==
    [][(/\ app.state = "Input"
        /\ app.input_text # <<>>
        /\ app.settings.auto_format
        /\ attempt' = "Input")
         => /\ encode(app.input_text, auto_detect(app.input_text)) # None
            /\ app'.barcode = encode(app.input_text, auto_detect(app.input_text))
            /\ app'.barcode_text = app.input_text
            /\ app'.state = "Display"]_vars

\* Enter has produced an EAN-13 barcode from 13 typed digits by auto-detect
C27_Witness ==
    /\ attempt = "Input"
    /\ app.state = "Display"
    /\ app.settings.auto_format
    /\ app.barcode # None
    /\ app.barcode[1].format = "Ean13"
    /\ Len(app.input_text) = 13

\* the screens that show or save the barcode
SpecBarcodeScreens == {"Display", "SavePrompt", "SaveNameEntry"}

\* C28: in Display, SavePrompt and SaveNameEntry the barcode is present and
\* equals encode(barcode_text, barcode.format); the app comes to these
\* screens from the others only by a key press whose encode succeeded, and
\* then shows that encode's result
C28_DisplayHasBarcode ==
    /\ [](app.state \in SpecBarcodeScreens =>
            /\ app.barcode # None
            /\ app.barcode = encode(app.barcode_text, app.barcode[1].format))
    /\ [][(app.state \notin SpecBarcodeScreens /\ app'.state \in SpecBarcodeScreens) =>
            /\ app'.state = "Display"
            /\ attempt' # "none"
            /\ encode(SpecPassed.text, SpecPassed.format) # None
            /\ app'.barcode = encode(SpecPassed.text, SpecPassed.format)]_vars

\* the name prompt, reached from the display of the second saved entry
C28_Witness ==
    /\ app.state = "SaveNameEntry"
    /\ app.barcode # None
    /\ app.barcode[1].format = "Code39"
    /\ app.barcode_text = <<49>>
    /\ app.load_index = 1
    /\ app.settings.format = "Code39"
    /\ ~app.settings.auto_format

\* C29: after any sequence of key presses menu_index <= 3, settings_index
\* <= 3, load_index < len(saved_codes) when saved_codes is non-empty and
\* load_index = 0 when it is empty, and no key press has indexed saved_codes
\* or the menu out of bounds
C29_SelectionInRange ==
    /\ app.menu_index \in 0..3
    /\ app.settings_index \in 0..3
    /\ app.saved_codes # <<>> => app.load_index \in 0..(Len(app.saved_codes) - 1)
    /\ app.saved_codes = <<>> => app.load_index = 0
    /\ app.state # "Panicked"

\* the last of the saved entries was selected and deleted, and an entry
\* remains
C29_Witness ==
    /\ app.state = "LoadList"
    /\ app.saved_codes # <<>>
    /\ app.load_index = Len(app.saved_codes) - 1
    /\ load_codes(pddb) = app.saved_codes
    /\ app.saved_codes = SavedSample(Len(app.saved_codes))
    /\ Len(app.saved_codes) < MaxSaved
    /\ \E n \in 1..MaxSaved :
           n > Len(app.saved_codes)
           /\ pddb.codes = save_codes(EMPTY_PDDB, SavedSample(n)).codes

\* what the user sees of the app: screen, input text, selection indices
\* and settings
SpecVisible(a) ==
    <<a.state, a.input_text, a.menu_index, a.load_index, a.settings_index,
      a.settings>>

\* C30: in the foreground, a Rawkeys message that leaves the app running and
\* changes its visible state (screen, input text, selection index or
\* settings) ends with a redraw, whatever its later keys are.
C30_ChangeIsRedrawn ==
    [][(alive /\ alive' /\ SpecVisible(app') # SpecVisible(app)) => redrawn']_vars

====
